---- MODULE Spec2Model ----
(***************************************************************************)
(* OsuToLibrary: chart files -> catalog search -> playlist synchronisation. *)
(* The model covers SpotifyManager, OsuToLibrary.process_osu_file,          *)
(* OsuToLibrary.process_directory (driven by main) and the directory branch *)
(* of OsuToLibraryGUI.process_files, against a model of the remote          *)
(* catalog/playlist service whose calls may fail (Spec); the single-file    *)
(* branches of both hosts; OsuFileParser.parse_osu_file on chart texts      *)
(* (SpecParse); and the window's start/stop buttons with the worker threads *)
(* they start (SpecGui).                                                    *)
(***************************************************************************)
EXTENDS Integers, Sequences, FiniteSets, TLC

VARIABLES
    playlists,        \* service: the user's playlists, in the order the service lists them
    tracks,           \* service: playlist id -> the playlist's items
    mode,             \* host: "cli" (main -> process_directory), "gui" (process_files),
                      \* "cli_file" / "gui_file" (their single-file branches)
    files,            \* the chart files the directory enumeration yields
    playlist_name,    \* --playlist / playlist_name_var ("" when not supplied)
    check_duplicate,  \* the check_duplicate argument
    pc,               \* "idle", "running" (inside the file loop), "finished"
    run,              \* how many times the host has been started on this batch
    idx,              \* files of the current run whose process_osu_file call returned
    playlist_id,      \* process_directory's local playlist_id
    added_count,      \* process_directory's added_count / process_files' processed_count
    added_tracks,     \* OsuToLibrary.added_tracks
    duplicate_tracks, \* OsuToLibrary.duplicate_tracks
    skipped_tracks,   \* OsuToLibrary.skipped_tracks
    last,             \* history: the most recent process_osu_file call
    ensures,          \* history: the get_or_create_osu_playlist calls of the most recent step
    ensure_calls,     \* history: get_or_create_osu_playlist calls issued in the current run
    start_tracks,     \* history: the service's playlist contents when the current run started
    first_kept,       \* history: the files the first run ended Added or Duplicate
    run_failed,       \* history: some catalog or playlist call of the current run failed
    reported,         \* single-file hosts: what the host tells the user at the end
    chosen,           \* single-file hosts: which of the directory's files the path names (else 0)
    charts,           \* parser: the chart files of a batch, given by their text
    parsed,           \* parser: how many of charts the converter has taken
    parser_metadata,  \* parser: OsuFileParser.metadata (self.metadata)
    result,           \* parser: history, the most recent parse and what process_osu_file did next
    run_btn,          \* window: state of the start button, "normal" or "disabled"
    stop_btn,         \* window: state of the stop button
    workers,          \* window: the threads start_processing has started, oldest first
    converter,        \* window: self.converter, by the worker that constructed it (None at first)
    outcomes          \* window: converter -> the entries in its three outcome lists

\* the synchronisation pipeline and its hosts
sync_vars == << playlists, tracks, mode, files, playlist_name, check_duplicate, pc, run, idx,
                playlist_id, added_count, added_tracks, duplicate_tracks, skipped_tracks,
                last, ensures, ensure_calls, start_tracks, first_kept, run_failed,
                reported, chosen >>

\* the text-level view of OsuFileParser
parser_vars == << charts, parsed, parser_metadata, result >>

\* the window of OsuToLibraryGUI and its worker threads
gui_vars == << run_btn, stop_btn, workers, converter, outcomes >>

vars == << sync_vars, parser_vars, gui_vars >>

\* what the directory hosts never touch
other_vars == << reported, chosen, parser_vars, gui_vars >>

---------------------------------------------------------------------------
(* Bounds of the model *)

\* most playlists the user's account may hold (the service refuses a create beyond it)
MaxPlaylists == 4
\* items per page of a playlist's track listing (the service's page size, scaled down)
PageSize == 2
\* items in the single response of current_user_playlists (the service's limit, scaled down)
PlaylistPageLimit == 2
\* most lines of a chart text
MaxLines == 3
\* most times the start button is pressed
MaxWorkers == 2

---------------------------------------------------------------------------
(* Python values *)

\* Python's None, for a playlist id, a track or a track id
None == 0
\* the empty dict parse_osu_file returns on failure
EmptyDict == [k \in {} |-> ""]
\* playlist_name when the caller supplies none (None and "" are both falsy)
NoName == ""
\* default of get_or_create_osu_playlist's playlist_name
DefaultName == "osu! library"

Min(a, b) == IF a <= b THEN a ELSE b
SetMin(S) == CHOOSE x \in S : \A y \in S : x <= y
Range(s) == { s[i] : i \in 1..Len(s) }

\* the (success, message) messages of process_osu_file
MsgParseFailed == "parse failed"
MsgNotFound == "track not found"
MsgPlaylistFailed == "playlist get/create failed"
MsgDuplicate == "already in playlist"
MsgAdded == "added to playlist"
MsgAddError == "add error"
\* what a single-file host tells the user
NoReport == ""
ReportAdded == "added"
ReportDuplicate == "already in playlist"
ReportFailed == "adding failed"
\* the truth value Python gives a tuple
Truthy(t) == Len(t) # 0

---------------------------------------------------------------------------
(* The remote catalog *)

\* the result page sp.search returns for a query: track ids, best match first
SearchResults(title, artist) ==
    CASE title = "Freedom Dive" /\ artist = "xi" -> << 1, 2 >>
      [] title = "FREEDOM DiVE" /\ artist = "xi" -> << 1 >>
      [] title = "Blue Zenith" /\ artist = "xi" -> << 2 >>
      [] OTHER -> << >>

\* a playlist item: item['track'] is None when the track was removed,
\* item['track']['id'] is None for a track without a catalog id
Item(has_track, id) == [has_track |-> has_track, id |-> id]
TrackItem(id) == Item(TRUE, id)

---------------------------------------------------------------------------
(* OsuFileParser *)

\* a chart file: whether its text has a [Metadata] section, and that section's fields
ChartFile(has_metadata, title, artist) ==
    [has_metadata |-> has_metadata, title |-> title, artist |-> artist]

parse_osu_file(file) ==
    IF file.has_metadata
    THEN [title |-> file.title, artist |-> file.artist]
    ELSE EmptyDict

(* The same method on the text of the file. A text is a sequence of tokens: section  *)
(* headers, field labels, the newline, the blank and value words.                    *)

NL == "\n"
Blank == " "
\* the tokens that begin with "["
Headers == {"[Metadata]", "[General]", "[Events]"}

\* (?=\n\[|\n$) at position j of c: a newline followed by "[", or by the end of the text,
\* where $ also matches just before a newline that ends the text
Lookahead(c, j) ==
    /\ c[j] = NL
    /\ \/ j < Len(c) /\ c[j + 1] \in Headers
       \/ j = Len(c)
       \/ j = Len(c) - 1 /\ c[Len(c)] = NL

\* where the lazy (.*?) begun after the header at i may stop
Ends(c, i) == { j \in (i + 1)..Len(c) : Lookahead(c, j) }

\* re.search(r'\[header\](.*?)(?=\n\[|\n$)', c, re.DOTALL): the leftmost header the
\* pattern matches from, and group(1) up to the first place the lookahead holds
Section(c, header) ==
    LET starts == { i \in 1..Len(c) : c[i] = header /\ Ends(c, i) # {} }
    IN  IF starts = {}
        THEN [matched |-> FALSE, text |-> << >>]
        ELSE LET i == SetMin(starts)
             IN  [matched |-> TRUE, text |-> SubSeq(c, i + 1, SetMin(Ends(c, i)) - 1)]

\* str.strip()
RECURSIVE Strip(_)
Strip(v) ==
    IF v = << >> THEN v
    ELSE IF Head(v) = Blank THEN Strip(Tail(v))
    ELSE IF v[Len(v)] = Blank THEN Strip(SubSeq(v, 1, Len(v) - 1))
    ELSE v

\* re.search(label + r'(.*)', text): the first occurrence of the label anywhere in the
\* text, and group(1), which runs to the end of that line
Field(text, label) ==
    LET at == { k \in 1..Len(text) : text[k] = label }
    IN  IF at = {}
        THEN [matched |-> FALSE, value |-> << >>]
        ELSE LET k == SetMin(at)
                 stops == { e \in (k + 1)..Len(text) : text[e] = NL } \cup {Len(text) + 1}
             IN  [matched |-> TRUE, value |-> SubSeq(text, k + 1, SetMin(stops) - 1)]

\* m.group(1).strip() if m else ""
StripOrEmpty(m) == IF m.matched THEN Strip(m.value) ELSE << >>

\* the dict parse_osu_file builds from the two sections
MetadataDict(metadata_text, general) ==
    [title |-> StripOrEmpty(Field(metadata_text, "Title:")),
     artist |-> StripOrEmpty(Field(metadata_text, "Artist:")),
     version |-> StripOrEmpty(Field(metadata_text, "Version:")),
     creator |-> StripOrEmpty(Field(metadata_text, "Creator:")),
     audio_filename |-> IF general.matched
                        THEN StripOrEmpty(Field(general.text, "AudioFilename:"))
                        ELSE << >>]

\* a parser that hands back what the previous call stored when no section is found
parse_osu_text_stale(chart, self_metadata) ==
    LET metadata_match == Section(chart.content, "[Metadata]")
    IN  IF chart.readable /\ metadata_match.matched
        THEN LET d == MetadataDict(metadata_match.text, Section(chart.content, "[General]"))
             IN  [ret |-> d, metadata |-> d]
        ELSE [ret |-> self_metadata, metadata |-> self_metadata]

\* parse_osu_file on a chart [readable, content]: ret is what it returns, metadata what
\* it leaves in self.metadata; open/read raising ends in the except branch
parse_osu_text(chart, self_metadata) ==
    IF ~chart.readable
    THEN [ret |-> EmptyDict, metadata |-> self_metadata]
    ELSE LET metadata_match == Section(chart.content, "[Metadata]")
         IN  IF metadata_match.matched
             THEN LET d == MetadataDict(metadata_match.text,
                                        Section(chart.content, "[General]"))
                  IN  [ret |-> d, metadata |-> d]
             ELSE [ret |-> EmptyDict, metadata |-> self_metadata]

---------------------------------------------------------------------------
(* SpotifyManager *)

search_track(title, artist, fails) ==
    IF fails THEN None
    ELSE LET items == SearchResults(title, artist)
         IN IF items # << >> THEN items[1] ELSE None

\* sp.current_user_playlists(): one response, holding the first page of the playlists
current_user_playlists(pls) == SubSeq(pls, 1, Min(Len(pls), PlaylistPageLimit))

\* at_head: where the service lists the new playlist (the service's choice)
create_playlist(name, pls, fails, at_head) ==
    IF fails
    THEN [id |-> None, playlists |-> pls, created |-> FALSE]
    ELSE LET new == [id |-> Len(pls) + 1, name |-> name]
         IN [id |-> new.id,
             playlists |-> IF at_head THEN << new >> \o pls ELSE Append(pls, new),
             created |-> TRUE]

\* ef: [lookup_fails, create_fails, at_head], what the service does with the calls
get_or_create_osu_playlist(name, pls, ef) ==
    IF ef.lookup_fails
    THEN [id |-> None, playlists |-> pls, created |-> FALSE]
    ELSE LET items == current_user_playlists(pls)
             matches == { i \in 1..Len(items) : items[i].name = name }
         IN IF matches # {}
            THEN [id |-> items[SetMin(matches)].id, playlists |-> pls, created |-> FALSE]
            ELSE create_playlist(name, pls, ef.create_fails, ef.at_head)

\* the ids get_playlist_tracks appends for one page
PageIds(page) ==
    LET kept == SelectSeq(page, LAMBDA item : item.has_track /\ item.id # None)
    IN [i \in 1..Len(kept) |-> kept[i].id]

\* the while loop of get_playlist_tracks from the page at offset on; call numbers the
\* service calls (playlist_tracks, then next), fail_at is the call that raises (0: none)
RECURSIVE FetchPages(_, _, _, _)
FetchPages(items, offset, call, fail_at) ==
    IF call = fail_at
    THEN [ok |-> FALSE, tracks |-> << >>, calls |-> call]
    ELSE LET page == SubSeq(items, offset + 1, Min(offset + PageSize, Len(items)))
             has_next == offset + PageSize < Len(items)
         IN IF has_next
            THEN LET rest == FetchPages(items, offset + PageSize, call + 1, fail_at)
                 IN [ok |-> rest.ok,
                     tracks |-> PageIds(page) \o rest.tracks,
                     calls |-> rest.calls]
            ELSE [ok |-> TRUE, tracks |-> PageIds(page), calls |-> call]

get_playlist_tracks(items, fail_at) ==
    LET r == FetchPages(items, 0, 1, fail_at)
    IN IF r.ok THEN r.tracks ELSE << >>

is_track_in_playlist(items, track_id, fail_at) ==
    track_id \in Range(get_playlist_tracks(items, fail_at))

\* add_track_to_playlist with an except clause that reports the failure with the
\* duplicate message, which process_osu_file's substring test takes for a duplicate
add_track_to_playlist_wrong_message(items, track_id, check, af) ==
    IF check /\ is_track_in_playlist(items, track_id, af.list_fail_at)
    THEN [success |-> FALSE, message |-> MsgDuplicate, items |-> items, add_called |-> FALSE]
    ELSE IF af.add_fails
         THEN [success |-> FALSE, message |-> MsgDuplicate, items |-> items, add_called |-> TRUE]
         ELSE [success |-> TRUE, message |-> MsgAdded,
               items |-> Append(items, TrackItem(track_id)), add_called |-> TRUE]

\* af: [list_fail_at, add_fails]; items: the playlist's items before the call
add_track_to_playlist(items, track_id, check, af) ==
    IF check /\ is_track_in_playlist(items, track_id, af.list_fail_at)
    THEN [success |-> FALSE, message |-> MsgDuplicate, items |-> items, add_called |-> FALSE]
    ELSE IF af.add_fails
         THEN [success |-> FALSE, message |-> MsgAddError, items |-> items, add_called |-> TRUE]
         ELSE [success |-> TRUE, message |-> MsgAdded,
               items |-> Append(items, TrackItem(track_id)), add_called |-> TRUE]

---------------------------------------------------------------------------
(* OsuToLibrary *)

\* the history record of a process_osu_file call that never happened
NoCall ==
    [called |-> FALSE, path |-> 0, playlist_arg |-> None, check |-> FALSE,
     stage |-> "none", track |-> None, target |-> None, before |-> << >>,
     default_failed |-> FALSE, member_called |-> FALSE, member_result |-> FALSE,
     list_failed |-> FALSE, list_calls |-> 0, add_called |-> FALSE,
     add_failed |-> FALSE, success |-> FALSE, message |-> "", search_failed |-> FALSE]

\* the history record of one get_or_create_osu_playlist call
EnsureCall(name, before, r) ==
    [name |-> name, before |-> before, id |-> r.id, created |-> r.created]

\* conv: [playlists, tracks, added_tracks, duplicate_tracks, skipped_tracks], the service
\* and the converter's lists before the call; f: what the service does with the calls.
\* The result holds them after the call, the (success, message) returned, and the history.
process_osu_file(path, file, pid, check, f, conv) ==
    LET metadata == parse_osu_file(file)
        call0 == [NoCall EXCEPT !.called = TRUE, !.path = path, !.playlist_arg = pid,
                                !.check = check]
        Return(c, success, message, call, ens) ==
            [playlists |-> c.playlists, tracks |-> c.tracks,
             added_tracks |-> c.added_tracks, duplicate_tracks |-> c.duplicate_tracks,
             skipped_tracks |-> c.skipped_tracks,
             success |-> success, message |-> message,
             call |-> [call EXCEPT !.success = success, !.message = message],
             ensures |-> ens]
    IN IF DOMAIN metadata = {}
       THEN Return(conv, FALSE, MsgParseFailed, [call0 EXCEPT !.stage = "parse"], << >>)
       ELSE
       LET track == search_track(metadata.title, metadata.artist, f.search_fails)
       IN IF track = None
          THEN Return(conv, FALSE, MsgNotFound,
                      [call0 EXCEPT !.stage = "search", !.search_failed = f.search_fails],
                      << >>)
          ELSE
          LET ens == IF pid = None
                     THEN get_or_create_osu_playlist(DefaultName, conv.playlists, f.ensure)
                     ELSE [id |-> pid, playlists |-> conv.playlists, created |-> FALSE]
              enscalls == IF pid = None
                          THEN << EnsureCall(DefaultName, conv.playlists, ens) >>
                          ELSE << >>
              call1 == [call0 EXCEPT !.track = track, !.target = ens.id,
                                     !.default_failed = (pid = None /\ ens.id = None)]
              conv1 == [conv EXCEPT !.playlists = ens.playlists]
          IN IF ens.id = None
             THEN Return(conv1, FALSE, MsgPlaylistFailed,
                         [call1 EXCEPT !.stage = "playlist"], enscalls)
             ELSE
             LET before == conv1.tracks[ens.id]
                 r == add_track_to_playlist(before, track, check, f.add)
                 listing == FetchPages(before, 0, 1, f.add.list_fail_at)
                 call2 == [call1 EXCEPT
                              !.stage = "add", !.before = before,
                              !.member_called = check,
                              !.member_result =
                                  (check /\ is_track_in_playlist(before, track,
                                                                f.add.list_fail_at)),
                              !.list_failed = (check /\ ~listing.ok),
                              !.list_calls = IF check THEN listing.calls ELSE 0,
                              !.add_called = r.add_called,
                              !.add_failed = (r.add_called /\ ~r.success)]
                 conv2 == [conv1 EXCEPT !.tracks[ens.id] = r.items]
                 entry == [file_path |-> path, track |-> track]
                 conv3 ==
                     IF r.success
                     THEN [conv2 EXCEPT !.added_tracks = Append(@, entry)]
                     ELSE IF r.message = MsgDuplicate
                          THEN [conv2 EXCEPT !.duplicate_tracks = Append(@, entry)]
                          ELSE [conv2 EXCEPT !.skipped_tracks =
                                   Append(@, [file_path |-> path, track |-> track,
                                              reason |-> r.message])]
             IN Return(conv3, r.success, r.message, call2, enscalls)

\* the service and the converter's lists, as process_osu_file takes them
Conv ==
    [playlists |-> playlists, tracks |-> tracks, added_tracks |-> added_tracks,
     duplicate_tracks |-> duplicate_tracks, skipped_tracks |-> skipped_tracks]

---------------------------------------------------------------------------
(* What the service may do with the calls of one step *)

\* lookup fails; or lookup succeeds and a create, if issued, fails or lists the new
\* playlist first or last
EnsureFaults ==
    { ef \in [lookup_fails : BOOLEAN, create_fails : BOOLEAN, at_head : BOOLEAN] :
        /\ ef.lookup_fails => ~ef.create_fails
        /\ (ef.lookup_fails \/ ef.create_fails) => ~ef.at_head }

AddFaults == [list_fail_at : 0..2, add_fails : BOOLEAN]

Faults == [search_fails : BOOLEAN, ensure : EnsureFaults, add : AddFaults]

\* the service refuses a create when the account is full
Allowed(ef, pls) == Len(pls) >= MaxPlaylists => (ef.lookup_fails \/ ef.create_fails)

\* the service doing nothing wrong
NoEnsureFault == [lookup_fails |-> FALSE, create_fails |-> FALSE, at_head |-> FALSE]
NoAddFault == [list_fail_at |-> 0, add_fails |-> FALSE]

\* f says nothing about calls process_osu_file(file, pid, check) never issues: no search
\* without metadata, no playlist call without a track, no lookup when the caller gave the
\* playlist, no listing without the duplicate check; and a lookup it issues is Allowed
Issued(f, file, pid, check, pls) ==
    /\ ~file.has_metadata => ~f.search_fails
    /\ search_track(file.title, file.artist, f.search_fails) = None =>
           f.ensure = NoEnsureFault /\ f.add = NoAddFault
    /\ IF pid = None /\ search_track(file.title, file.artist, f.search_fails) # None
       THEN Allowed(f.ensure, pls)
       ELSE f.ensure = NoEnsureFault
    /\ ~check => f.add.list_fail_at = 0

---------------------------------------------------------------------------
(* Inputs *)

NoMetadata == ChartFile(FALSE, "", "")
FreedomDive == ChartFile(TRUE, "Freedom Dive", "xi")
FreedomDiveAlt == ChartFile(TRUE, "FREEDOM DiVE", "xi")
BlueZenith == ChartFile(TRUE, "Blue Zenith", "xi")
Unknown == ChartFile(TRUE, "Unknown", "nobody")

\* the enumerations of a directory
Batches ==
    { << >>,
      << NoMetadata, FreedomDive, BlueZenith >>,
      << FreedomDive, FreedomDiveAlt >>,
      << Unknown, FreedomDive >> }

NoTracks == [p \in 1..MaxPlaylists |-> << >>]

\* the lines chart texts are made of
Lines ==
    { << "[Metadata]" >>, << "[General]" >>, << "[Events]" >>, << >>,
      << "Title:", Blank, "a", Blank >>,
      << "Artist:", "b" >>,
      << "Artist:", "b", Blank, "Title:", "c" >>,
      << "AudioFilename:", "f" >> }

RECURSIVE Join(_)
Join(ls) ==
    IF ls = << >> THEN << >>
    ELSE IF Len(ls) = 1 THEN ls[1]
    ELSE ls[1] \o << NL >> \o Join(Tail(ls))

\* the text of the lines ls, with or without a newline after the last one
Text(ls, final_newline) == Join(ls) \o (IF final_newline THEN << NL >> ELSE << >>)

Texts ==
    { Text(ls, nl) : ls \in UNION { [1..n -> Lines] : n \in 0..MaxLines }, nl \in BOOLEAN }

Chart(content) == [readable |-> TRUE, content |-> content]
\* a file open() or read() raises on
Unreadable == [readable |-> FALSE, content |-> << >>]
Charts == { Chart(t) : t \in Texts } \cup {Unreadable}

\* charts a converter may have parsed before
PriorCharts ==
    { Chart(Text(<< << "[Metadata]" >>, << "Title:", "Freedom Dive" >>, << "Artist:", "xi" >>,
                    << "Version:", "FOUR DIMENSIONS" >>, << "Creator:", "Nakagawa-Kanon" >> >>,
                 TRUE)),
      Chart(Text(<< << "[General]" >>, << "AudioFilename:", "audio.mp3" >>, << >>,
                    << "[Metadata]" >>, << "Title:", "Blue Zenith" >>, << "Artist:", "xi" >> >>,
                 TRUE)) }

\* the batches one converter is run on
ChartBatches ==
    { << c >> : c \in Charts } \cup { << p, c >> : p \in PriorCharts, c \in Charts }

\* the states of the user's account before the first run
Services ==
    { [playlists |-> << >>, tracks |-> NoTracks],
      [playlists |-> << [id |-> 1, name |-> DefaultName] >>,
       tracks |-> [NoTracks EXCEPT ![1] = << Item(TRUE, None), TrackItem(1) >>]],
      [playlists |-> << [id |-> 1, name |-> "mine"] >>,
       tracks |-> [NoTracks EXCEPT ![1] = << TrackItem(2), Item(FALSE, None), TrackItem(1) >>]],
      [playlists |-> << [id |-> 1, name |-> "workout"], [id |-> 2, name |-> "chill"],
                        [id |-> 3, name |-> "mine"] >>,
       tracks |-> [NoTracks EXCEPT ![3] = << TrackItem(1) >>]],
      [playlists |-> << [id |-> 1, name |-> "workout"], [id |-> 2, name |-> "chill"] >>,
       tracks |-> NoTracks] }

\* no parse yet
NoParse ==
    [called |-> FALSE, ret |-> EmptyDict, before |-> EmptyDict, searched |-> FALSE,
     query |-> << >>, message |-> ""]

\* OsuFileParser.__init__, with no batch of texts
ParserIdle ==
    /\ charts = << >>
    /\ parsed = 0
    /\ parser_metadata = EmptyDict
    /\ result = NoParse

\* OsuToLibraryGUI.__init__: start enabled, stop disabled, no thread, no converter
GuiIdle ==
    /\ run_btn = "normal"
    /\ stop_btn = "disabled"
    /\ workers = << >>
    /\ converter = None
    /\ outcomes = [c \in 1..MaxWorkers |-> << >>]

Init ==
    /\ ParserIdle
    /\ GuiIdle
    /\ \E s \in Services : playlists = s.playlists /\ tracks = s.tracks
    /\ files \in Batches
    /\ \/ /\ mode = "cli" /\ playlist_name \in {NoName, "mine"} /\ check_duplicate \in BOOLEAN
          /\ chosen = 0
       \/ /\ mode = "gui" /\ playlist_name \in {DefaultName, "mine"} /\ check_duplicate = TRUE
          /\ chosen = 0
       \/ /\ mode = "cli_file" /\ playlist_name \in {NoName, "mine"} /\ check_duplicate = TRUE
          /\ chosen \in 1..Len(files)
       \/ /\ mode = "gui_file" /\ playlist_name \in {DefaultName, "mine"} /\ check_duplicate = TRUE
          /\ chosen \in 1..Len(files)
    /\ pc = "idle"
    /\ run = 0
    /\ idx = 0
    /\ playlist_id = None
    /\ added_count = 0
    /\ added_tracks = << >>
    /\ duplicate_tracks = << >>
    /\ skipped_tracks = << >>
    /\ last = NoCall
    /\ ensures = << >>
    /\ ensure_calls = 0
    /\ start_tracks = tracks
    /\ first_kept = {}
    /\ run_failed = FALSE
    /\ reported = NoReport

---------------------------------------------------------------------------
(* Actions *)

\* the host may be started on the batch, and started once more when it has finished
CanStart == (pc = "idle" /\ run = 0) \/ (pc = "finished" /\ run = 1)

\* some call process_osu_file issued, or a playlist lookup or create, failed
StepFailed(call, ens) ==
    \/ call.search_failed
    \/ call.list_failed
    \/ call.add_failed
    \/ \E i \in 1..Len(ens) : ens[i].id = None

\* OsuToLibrary.__init__, and the history of the new run
NewConverter ==
    /\ added_tracks' = << >>
    /\ duplicate_tracks' = << >>
    /\ skipped_tracks' = << >>
    /\ idx' = 0
    /\ added_count' = 0
    /\ last' = NoCall
    /\ run' = run + 1
    /\ start_tracks' = tracks
    /\ UNCHANGED first_kept

\* main -> process_directory, up to the file loop
StartCli ==
    /\ UNCHANGED other_vars
    /\ mode = "cli"
    /\ CanStart
    /\ NewConverter
    /\ IF files = << >>
       THEN /\ pc' = "finished"
            /\ playlist_id' = None
            /\ ensures' = << >>
            /\ ensure_calls' = 0
            /\ run_failed' = FALSE
            /\ UNCHANGED << playlists, tracks >>
       ELSE /\ pc' = "running"
            /\ IF playlist_name # NoName
               THEN \E ef \in EnsureFaults :
                       /\ Allowed(ef, playlists)
                       /\ LET r == get_or_create_osu_playlist(playlist_name, playlists, ef)
                          IN /\ playlist_id' = r.id
                             /\ playlists' = r.playlists
                             /\ ensures' = << EnsureCall(playlist_name, playlists, r) >>
                             /\ ensure_calls' = 1
                             /\ run_failed' = (r.id = None)
               ELSE /\ playlist_id' = None
                    /\ ensures' = << >>
                    /\ ensure_calls' = 0
                    /\ run_failed' = FALSE
                    /\ UNCHANGED playlists
            /\ UNCHANGED tracks
    /\ UNCHANGED << mode, files, playlist_name, check_duplicate >>

\* the file loop counting every file that did not end Skipped
CliProcessFile_counts_duplicates ==
    /\ UNCHANGED other_vars
    /\ mode = "cli"
    /\ pc = "running"
    /\ idx < Len(files)
    /\ \E f \in Faults :
          /\ Issued(f, files[idx + 1], playlist_id, check_duplicate, playlists)
          /\ \E r \in { process_osu_file(idx + 1, files[idx + 1], playlist_id,
                                         check_duplicate, f, Conv) } :
                /\ playlists' = r.playlists
                /\ tracks' = r.tracks
                /\ added_tracks' = r.added_tracks
                /\ duplicate_tracks' = r.duplicate_tracks
                /\ skipped_tracks' = r.skipped_tracks
                /\ added_count' = IF r.success \/ r.message = MsgDuplicate
                                  THEN added_count + 1 ELSE added_count
                /\ last' = r.call
                /\ ensures' = r.ensures
                /\ ensure_calls' = ensure_calls + Len(r.ensures)
                /\ run_failed' = (run_failed \/ StepFailed(r.call, r.ensures))
                /\ first_kept' = IF run = 1 /\ r.message \in {MsgAdded, MsgDuplicate}
                                  THEN first_kept \cup {idx + 1}
                                  ELSE first_kept
    /\ idx' = idx + 1
    /\ UNCHANGED << mode, files, playlist_name, check_duplicate, pc, run, playlist_id,
                    start_tracks >>

\* one iteration of process_directory's file loop
CliProcessFile ==
    /\ UNCHANGED other_vars
    /\ mode = "cli"
    /\ pc = "running"
    /\ idx < Len(files)
    /\ \E f \in Faults :
          /\ Issued(f, files[idx + 1], playlist_id, check_duplicate, playlists)
          /\ \E r \in { process_osu_file(idx + 1, files[idx + 1], playlist_id,
                                         check_duplicate, f, Conv) } :
                /\ playlists' = r.playlists
                /\ tracks' = r.tracks
                /\ added_tracks' = r.added_tracks
                /\ duplicate_tracks' = r.duplicate_tracks
                /\ skipped_tracks' = r.skipped_tracks
                /\ added_count' = IF r.success THEN added_count + 1 ELSE added_count
                /\ last' = r.call
                /\ ensures' = r.ensures
                /\ ensure_calls' = ensure_calls + Len(r.ensures)
                /\ run_failed' = (run_failed \/ StepFailed(r.call, r.ensures))
                /\ first_kept' = IF run = 1 /\ r.message \in {MsgAdded, MsgDuplicate}
                                  THEN first_kept \cup {idx + 1}
                                  ELSE first_kept
    /\ idx' = idx + 1
    /\ UNCHANGED << mode, files, playlist_name, check_duplicate, pc, run, playlist_id,
                    start_tracks >>

\* a file loop that a failed file ends
FinishCli_after_failure ==
    /\ UNCHANGED other_vars
    /\ mode = "cli"
    /\ pc = "running"
    /\ idx = Len(files) \/ (last.called /\ ~last.success)
    /\ pc' = "finished"
    /\ UNCHANGED << playlists, tracks, mode, files, playlist_name, check_duplicate, run,
                    idx, playlist_id, added_count, added_tracks, duplicate_tracks,
                    skipped_tracks, last, ensures, ensure_calls, start_tracks,
                    first_kept, run_failed >>

\* process_directory returns added_count
FinishCli ==
    /\ UNCHANGED other_vars
    /\ mode = "cli"
    /\ pc = "running"
    /\ idx = Len(files)
    /\ pc' = "finished"
    /\ UNCHANGED << playlists, tracks, mode, files, playlist_name, check_duplicate, run,
                    idx, playlist_id, added_count, added_tracks, duplicate_tracks,
                    skipped_tracks, last, ensures, ensure_calls, start_tracks,
                    first_kept, run_failed >>

\* process_files, directory branch, up to the file loop
StartGui ==
    /\ UNCHANGED other_vars
    /\ mode = "gui"
    /\ CanStart
    /\ NewConverter
    /\ pc' = IF files = << >> THEN "finished" ELSE "running"
    /\ playlist_id' = None
    /\ ensures' = << >>
    /\ ensure_calls' = 0
    /\ run_failed' = FALSE
    /\ UNCHANGED << playlists, tracks, mode, files, playlist_name, check_duplicate >>

\* one iteration of process_files' file loop: the playlist argument is evaluated,
\* then process_osu_file runs
GuiProcessFile ==
    /\ UNCHANGED other_vars
    /\ mode = "gui"
    /\ pc = "running"
    /\ idx < Len(files)
    /\ \E ef \in EnsureFaults, f \in Faults :
          /\ Allowed(ef, playlists)
          /\ \E e \in { get_or_create_osu_playlist(playlist_name, playlists, ef) } :
                /\ Issued(f, files[idx + 1], e.id, TRUE, e.playlists)
                /\ \E r \in { process_osu_file(idx + 1, files[idx + 1], e.id, TRUE, f,
                                               [Conv EXCEPT !.playlists = e.playlists]) } :
                      /\ playlists' = r.playlists
                      /\ tracks' = r.tracks
                      /\ added_tracks' = r.added_tracks
                      /\ duplicate_tracks' = r.duplicate_tracks
                      /\ skipped_tracks' = r.skipped_tracks
                      /\ added_count' = IF r.success THEN added_count + 1 ELSE added_count
                      /\ last' = r.call
                      /\ ensures' = << EnsureCall(playlist_name, playlists, e) >> \o r.ensures
                      /\ ensure_calls' = ensure_calls + 1 + Len(r.ensures)
                      /\ run_failed' = (\/ run_failed
                                        \/ e.id = None
                                        \/ StepFailed(r.call, r.ensures))
                      /\ first_kept' = IF run = 1 /\ r.message \in {MsgAdded, MsgDuplicate}
                                        THEN first_kept \cup {idx + 1}
                                        ELSE first_kept
    /\ idx' = idx + 1
    /\ UNCHANGED << mode, files, playlist_name, check_duplicate, pc, run, playlist_id,
                    start_tracks >>

\* the loop of process_files ends and the summary is shown
FinishGui ==
    /\ UNCHANGED other_vars
    /\ mode = "gui"
    /\ pc = "running"
    /\ idx = Len(files)
    /\ pc' = "finished"
    /\ UNCHANGED << playlists, tracks, mode, files, playlist_name, check_duplicate, run,
                    idx, playlist_id, added_count, added_tracks, duplicate_tracks,
                    skipped_tracks, last, ensures, ensure_calls, start_tracks,
                    first_kept, run_failed >>

\* the converter's lists as OsuToLibrary.__init__ leaves them, with the service as it is
FreshConv ==
    [playlists |-> playlists, tracks |-> tracks, added_tracks |-> << >>,
     duplicate_tracks |-> << >>, skipped_tracks |-> << >>]

\* what a single-file host does with r, the result of its one process_osu_file call
SingleFileDone(r) ==
    /\ playlists' = r.playlists
    /\ tracks' = r.tracks
    /\ added_tracks' = r.added_tracks
    /\ duplicate_tracks' = r.duplicate_tracks
    /\ skipped_tracks' = r.skipped_tracks
    /\ last' = r.call
    /\ ensures' = r.ensures
    /\ ensure_calls' = Len(r.ensures)
    /\ first_kept' = IF run = 0 /\ r.message \in {MsgAdded, MsgDuplicate}
                     THEN {chosen} ELSE first_kept
    /\ start_tracks' = tracks
    /\ run' = run + 1
    /\ idx' = 1
    /\ added_count' = 0
    /\ playlist_id' = None
    /\ pc' = "finished"
    /\ run_failed' = StepFailed(r.call, r.ensures)
    /\ UNCHANGED << mode, files, playlist_name, check_duplicate, chosen, parser_vars,
                    gui_vars >>

\* main handing the file's path to process_directory, which finds no file under it
CliSingleFile_as_directory ==
    /\ mode = "cli_file"
    /\ CanStart
    /\ NewConverter
    /\ pc' = "finished"
    /\ playlist_id' = None
    /\ ensures' = << >>
    /\ ensure_calls' = 0
    /\ run_failed' = FALSE
    /\ reported' = NoReport
    /\ UNCHANGED << playlists, tracks, mode, files, playlist_name, check_duplicate,
                    chosen, parser_vars, gui_vars >>

\* main on a path that is a .osu file: success = converter.process_osu_file(args.path),
\* the returned tuple itself being what "if success" tests
CliSingleFile ==
    /\ mode = "cli_file"
    /\ CanStart
    /\ \E f \in Faults :
          /\ Issued(f, files[chosen], None, TRUE, playlists)
          /\ \E r \in { process_osu_file(chosen, files[chosen], None, TRUE, f, FreshConv) } :
                /\ SingleFileDone(r)
                /\ reported' = IF Truthy(<< r.success, r.message >>)
                               THEN ReportAdded ELSE ReportFailed

\* process_files, single-file branch: process_osu_file(str(path), check_duplicate=True)
GuiSingleFile ==
    /\ mode = "gui_file"
    /\ CanStart
    /\ \E f \in Faults :
          /\ Issued(f, files[chosen], None, TRUE, playlists)
          /\ \E r \in { process_osu_file(chosen, files[chosen], None, TRUE, f, FreshConv) } :
                /\ SingleFileDone(r)
                /\ reported' = IF r.success THEN ReportAdded
                               ELSE IF r.message = MsgDuplicate THEN ReportDuplicate
                               ELSE ReportFailed

Next ==
    \/ CliSingleFile
    \/ GuiSingleFile
    \/ StartCli
    \/ CliProcessFile
    \/ FinishCli
    \/ StartGui
    \/ GuiProcessFile
    \/ FinishGui

Spec == Init /\ [][Next]_vars

---------------------------------------------------------------------------
(* The parser on chart texts *)

\* a converter with no host running and an empty account
SyncIdle ==
    /\ playlists = << >>
    /\ tracks = NoTracks
    /\ playlist_name = NoName
    /\ check_duplicate = TRUE
    /\ pc = "idle"
    /\ run = 0
    /\ idx = 0
    /\ playlist_id = None
    /\ added_count = 0
    /\ added_tracks = << >>
    /\ duplicate_tracks = << >>
    /\ skipped_tracks = << >>
    /\ last = NoCall
    /\ ensures = << >>
    /\ ensure_calls = 0
    /\ start_tracks = NoTracks
    /\ first_kept = {}
    /\ run_failed = FALSE
    /\ reported = NoReport
    /\ chosen = 0

InitParse ==
    /\ SyncIdle
    /\ GuiIdle
    /\ mode = "parse"
    /\ files = << >>
    /\ charts \in ChartBatches
    /\ parsed = 0
    /\ parser_metadata = EmptyDict
    /\ result = NoParse

\* process_osu_file on the next chart, up to the catalog search: parse_osu_file, the
\* early return on a falsy result, else search_track(metadata['title'], metadata['artist'])
ParseNext ==
    /\ parsed < Len(charts)
    /\ \E r \in { parse_osu_text(charts[parsed + 1], parser_metadata) } :
          /\ parser_metadata' = r.metadata
          /\ result' = [called |-> TRUE,
                        ret |-> r.ret,
                        before |-> parser_metadata,
                        searched |-> DOMAIN r.ret # {},
                        query |-> IF DOMAIN r.ret # {}
                                  THEN << r.ret.title, r.ret.artist >> ELSE << >>,
                        message |-> IF DOMAIN r.ret = {} THEN MsgParseFailed ELSE "searching"]
    /\ parsed' = parsed + 1
    /\ UNCHANGED << charts, sync_vars, gui_vars >>

SpecParse == InitParse /\ [][ParseNext]_vars

---------------------------------------------------------------------------
(* The window's buttons and worker threads, directory mode *)

InitGui ==
    /\ SyncIdle
    /\ ParserIdle
    /\ GuiIdle
    /\ mode = "window"
    /\ files \in Batches

\* a thread start_processing has just started: position in process_files, files begun,
\* the converter its current process_osu_file call runs on, and two history flags
NewWorker ==
    [pc |-> "created", next |-> 0, conv |-> None, stop_seen |-> FALSE,
     began_after_stop |-> FALSE]

Alive(w) == workers[w].pc # "done"

\* start_processing, reached only through the enabled start button
ClickStart ==
    /\ run_btn = "normal"
    /\ Len(workers) < MaxWorkers
    /\ run_btn' = "disabled"
    /\ stop_btn' = "normal"
    /\ workers' = Append(workers, NewWorker)
    /\ UNCHANGED << converter, outcomes, sync_vars, parser_vars >>

\* stop_processing, reached only through the enabled stop button
ClickStop ==
    /\ stop_btn = "normal"
    /\ run_btn' = "normal"
    /\ stop_btn' = "disabled"
    /\ workers' = [w \in DOMAIN workers |->
                      IF Alive(w) THEN [workers[w] EXCEPT !.stop_seen = TRUE] ELSE workers[w]]
    /\ UNCHANGED << converter, outcomes, sync_vars, parser_vars >>

\* process_files up to the file loop: self.converter = OsuToLibrary(...), the glob, and
\* the return through finally when the directory holds no chart file
WorkerInit(w) ==
    /\ workers[w].pc = "created"
    /\ converter' = w
    /\ outcomes' = [outcomes EXCEPT ![w] = << >>]
    /\ IF files = << >>
       THEN /\ workers' = [workers EXCEPT ![w].pc = "done"]
            /\ run_btn' = "normal"
            /\ stop_btn' = "disabled"
       ELSE /\ workers' = [workers EXCEPT ![w].pc = "loop"]
            /\ UNCHANGED << run_btn, stop_btn >>
    /\ UNCHANGED << sync_vars, parser_vars >>

\* the loop takes the next file: self.converter.process_osu_file(...) is entered on the
\* converter self.converter names at this moment
BeginFile(w) ==
    /\ workers[w].pc = "loop"
    /\ workers[w].next < Len(files)
    /\ workers' = [workers EXCEPT ![w].pc = "in_file",
                                  ![w].next = @ + 1,
                                  ![w].conv = converter,
                                  ![w].began_after_stop = @ \/ workers[w].stop_seen]
    /\ UNCHANGED << run_btn, stop_btn, converter, outcomes, sync_vars, parser_vars >>

\* process_osu_file returns, having appended the file's entry to a list of its converter
EndFile(w) ==
    /\ workers[w].pc = "in_file"
    /\ outcomes' = [outcomes EXCEPT ![workers[w].conv] =
                                      Append(@, [worker |-> w, file |-> workers[w].next])]
    /\ workers' = [workers EXCEPT ![w].pc = "loop"]
    /\ UNCHANGED << run_btn, stop_btn, converter, sync_vars, parser_vars >>

\* after the last file: the summary, then finally resets the buttons
WorkerFinish(w) ==
    /\ workers[w].pc = "loop"
    /\ workers[w].next = Len(files)
    /\ workers' = [workers EXCEPT ![w].pc = "done"]
    /\ run_btn' = "normal"
    /\ stop_btn' = "disabled"
    /\ UNCHANGED << converter, outcomes, sync_vars, parser_vars >>

NextGui ==
    \/ ClickStart
    \/ ClickStop
    \/ \E w \in DOMAIN workers : WorkerInit(w)
    \/ \E w \in DOMAIN workers : BeginFile(w)
    \/ \E w \in DOMAIN workers : EndFile(w)
    \/ \E w \in DOMAIN workers : WorkerFinish(w)

SpecGui == InitGui /\ [][NextGui]_vars

---------------------------------------------------------------------------
(* Properties *)

\* the list l holds an entry for the file at path
InList(l, path) == \E i \in 1..Len(l) : l[i].file_path = path
\* the track ids a playlist's items carry
TrackIds(items) ==
    { items[i].id : i \in { j \in 1..Len(items) : items[j].has_track /\ items[j].id # None } }
\* how many of the three outcome lists hold an entry for the file at path
ListsHolding(path) ==
    (IF InList(added_tracks, path) THEN 1 ELSE 0)
    + (IF InList(duplicate_tracks, path) THEN 1 ELSE 0)
    + (IF InList(skipped_tracks, path) THEN 1 ELSE 0)
\* the pages a listing of items takes
Pages(items) == IF Len(items) = 0 THEN 1 ELSE (Len(items) + PageSize - 1) \div PageSize

\* C1: every process_osu_file call that returned left exactly one entry for its file in
\* exactly one of the three outcome lists, so the lists together hold as many entries
\* as files were processed in the run.
C1_OneEntryPerProcessedFile ==
    /\ last.called => ListsHolding(last.path) = 1
    /\ Len(added_tracks) + Len(duplicate_tracks) + Len(skipped_tracks) = idx

\* C2: a file that fails before a track is matched (parse failure, no search result) is
\* in the skipped list with its reason and in neither other list; when the batch has
\* finished, every file that failed parsing has its entry in the skipped list.
C2_EarlyFailureIsSkipped ==
    /\ last.called /\ last.stage \in {"parse", "search"} =>
          /\ \E i \in 1..Len(skipped_tracks) :
                skipped_tracks[i].file_path = last.path
                /\ skipped_tracks[i].reason = last.message
          /\ ~InList(added_tracks, last.path)
          /\ ~InList(duplicate_tracks, last.path)
    /\ pc = "finished" /\ run >= 1 =>
          \A i \in 1..Len(files) :
             ~files[i].has_metadata => InList(skipped_tracks, i)

\* C3: with check_duplicate enabled, a file whose matched track id is already among the
\* target playlist's track ids ends Duplicate (in duplicate_tracks only) and
\* playlist_add_items is not called for it.
C3_PresentTrackIsDuplicate ==
    last.called /\ last.stage = "add" /\ last.check
    /\ last.track \in TrackIds(last.before) =>
       /\ last.message = MsgDuplicate
       /\ ~last.add_called
       /\ InList(duplicate_tracks, last.path)
       /\ ~InList(added_tracks, last.path)
       /\ ~InList(skipped_tracks, last.path)

\* C4: in a second run of the same batch with check_duplicate enabled, no file that the
\* first run ended Added or Duplicate is Added, and the call leaves the playlists'
\* contents as they were.
C4_SecondRunAddsNothing ==
    run = 2 /\ check_duplicate /\ last.called /\ last.path \in first_kept =>
       /\ ~last.success
       /\ ~InList(added_tracks, last.path)
       /\ last.stage = "add" => tracks[last.target] = last.before

\* C5: when the membership listing fails during the duplicate check, the failed call is
\* not retried, the file is recorded as Skipped and playlist_add_items is not called.
C5_ListingFailureIsSkipped ==
    last.called /\ last.list_failed =>
       /\ last.list_calls <= Pages(last.before)
       /\ InList(skipped_tracks, last.path)
       /\ ~last.add_called

\* C6: a failing playlist_add_items call does not escape process_osu_file: the call
\* returns (False, error message), the file is in skipped_tracks only, with that
\* message as its reason, and the playlist is as it was before the call.
C6_AddFailureIsSkipped ==
    last.called /\ last.add_failed =>
       /\ ~last.success
       /\ last.message = MsgAddError
       /\ \E i \in 1..Len(skipped_tracks) :
             skipped_tracks[i].file_path = last.path
             /\ skipped_tracks[i].reason = MsgAddError
       /\ ~InList(added_tracks, last.path)
       /\ ~InList(duplicate_tracks, last.path)
       /\ tracks[last.target] = last.before

\* a process_osu_file call returned after playlist_add_items failed
C6_Witness == last.called /\ last.add_failed /\ last.before # << >>

\* C7: when the playlist cannot be resolved (for the name the caller supplied, or for
\* the default name when none was supplied), a file that reaches the playlist step ends
\* with the resolution-failed message and playlist_add_items is called on no playlist.
C7_UnresolvedPlaylistIsSkipped ==
    last.called /\ last.stage \in {"playlist", "add"}
    /\ ((playlist_name # NoName /\ last.playlist_arg = None) \/ last.default_failed) =>
       /\ ~last.success
       /\ last.message = MsgPlaylistFailed
       /\ ~last.add_called

\* C8: get_or_create_osu_playlist creates a playlist only when none of the user's
\* playlists has that name; when one has, it returns the id of the first of them.
C8_CreatesOnlyWhenAbsent ==
    \A k \in 1..Len(ensures) :
       LET e == ensures[k]
           named == { i \in 1..Len(e.before) : e.before[i].name = e.name }
       IN /\ e.created => named = {}
          /\ (named # {} /\ e.id # None) => e.id = e.before[SetMin(named)].id

\* C9: in a batch with a playlist name supplied, get_or_create_osu_playlist is called
\* once for the whole batch, whatever the number of files.
C9_PlaylistResolvedOncePerBatch ==
    playlist_name # NoName =>
       /\ ensure_calls <= 1
       /\ (pc = "finished" /\ run >= 1 /\ files # << >>) => ensure_calls = 1

\* C10: is_track_in_playlist returns true exactly when the id is the track id of some
\* item on some page of the playlist's listing.
C10_MemberIffListed ==
    last.called /\ last.member_called =>
       (last.member_result <=> last.track \in TrackIds(last.before))

\* the host works on a directory / on a single file
DirectoryHost == mode \in {"cli", "gui"}
SingleFileHost == mode \in {"cli_file", "gui_file"}
\* the messages a process_osu_file call can return
TerminalMessages ==
    {MsgParseFailed, MsgNotFound, MsgPlaylistFailed, MsgDuplicate, MsgAdded, MsgAddError}
\* the items of all playlists together
RECURSIVE TotalItems(_, _)
TotalItems(t, n) == IF n = 0 THEN 0 ELSE Len(t[n]) + TotalItems(t, n - 1)

\* C11: search_track gives the first item of a non-empty result page and none only for
\* an empty one, and a search that failed is not reported as 'track not found'.
C11_SearchFailureIsNotNoMatch ==
    last.called /\ last.stage # "parse" =>
       LET file == files[last.path]
           items == SearchResults(file.title, file.artist)
       IN /\ last.stage = "search" => items = << >>
          /\ last.stage # "search" => last.track = items[1]
          /\ last.search_failed => last.message # MsgNotFound

\* C12: a failure for one file does not end the batch: the file loop is left only when
\* every enumerated file has been brought to a terminal outcome, whatever failed before.
C12_EveryFileProcessed ==
    DirectoryHost =>
       /\ idx <= Len(files)
       /\ (pc = "finished" /\ run >= 1) => idx = Len(files)
       /\ last.called => last.message \in TerminalMessages

\* a batch finished whose first file failed parsing and whose later files were processed
C12_Witness ==
    /\ DirectoryHost /\ pc = "finished" /\ idx = Len(files) /\ idx >= 2
    /\ ~files[1].has_metadata
    /\ last.called /\ last.path = idx

\* C13: the count process_directory returns is the number of entries its run appended
\* to added_tracks and the number of items playlist_add_items added to the playlists.
C13_ReturnCountsAdded ==
    mode = "cli" =>
       /\ added_count = Len(added_tracks)
       /\ added_count = TotalItems(tracks, MaxPlaylists) - TotalItems(start_tracks, MaxPlaylists)

\* process_directory returned after files ended Added and others did not
C13_Witness ==
    /\ mode = "cli" /\ pc = "finished" /\ added_count >= 1
    /\ Len(duplicate_tracks) >= 1

\* C14: a host given the path of a single chart file makes one process_osu_file call,
\* for that file, and the call reaches a terminal outcome.
C14_SingleFileProcessedOnce ==
    (SingleFileHost /\ pc = "finished") =>
       /\ idx = 1
       /\ last.called /\ last.path = chosen
       /\ last.message \in TerminalMessages
       /\ \A i \in 1..Len(files) :
             i # chosen => ~InList(added_tracks, i) /\ ~InList(duplicate_tracks, i)
                           /\ ~InList(skipped_tracks, i)

\* a single-file host finished on a file of a directory holding other files
C14_Witness ==
    SingleFileHost /\ pc = "finished" /\ Len(files) >= 2 /\ last.called /\ last.success

\* C20: a single-file host given a playlist name adds the track to, and checks
\* duplicates against, the playlist of that name.
C20_SingleFileUsesNamedPlaylist ==
    (SingleFileHost /\ playlist_name # NoName /\ last.called /\ last.stage = "add") =>
       \E i \in 1..Len(playlists) :
          playlists[i].id = last.target /\ playlists[i].name = playlist_name

---------------------------------------------------------------------------
(* Properties of the parser *)

\* the text of the chart the most recent parse was given
Content == IF parsed = 0 THEN << >> ELSE charts[parsed].content
Readable == parsed >= 1 /\ charts[parsed].readable
Succeeded == DOMAIN result.ret # {}

\* the section as the format delimits it: from its header to the next section header,
\* or to the end of the text
SpecSection(c, header) ==
    LET at == { i \in 1..Len(c) : c[i] = header }
    IN  IF at = {}
        THEN [matched |-> FALSE, text |-> << >>]
        ELSE LET i == SetMin(at)
                 nexts == { j \in (i + 1)..Len(c) : c[j] \in Headers } \cup {Len(c) + 1}
             IN  [matched |-> TRUE, text |-> SubSeq(c, i + 1, SetMin(nexts) - 1)]

\* the trimmed value of the first line of text that begins with the label, else empty
LineField(text, label) ==
    LET at == { k \in 2..Len(text) : text[k] = label /\ text[k - 1] = NL }
    IN  IF at = {} THEN << >>
        ELSE LET k == SetMin(at)
                 stops == { e \in (k + 1)..Len(text) : text[e] = NL } \cup {Len(text) + 1}
             IN  Strip(SubSeq(text, k + 1, SetMin(stops) - 1))

Trimmed(v) == v = << >> \/ (Head(v) # Blank /\ v[Len(v)] # Blank)

\* C15: a text without a [Metadata] header gives the empty record and the parse-failed
\* outcome, whatever the parser returned before, and no catalog search is issued for it.
C15_NoMetadataIsEmptyRecord ==
    (result.called /\ "[Metadata]" \notin Range(Content)) =>
       /\ DOMAIN result.ret = {}
       /\ result.message = MsgParseFailed
       /\ ~result.searched

\* C15's case: such a text parsed by a parser that holds an earlier successful record
C15_Witness ==
    /\ result.called
    /\ Readable /\ Content # << >>
    /\ "[Metadata]" \notin Range(Content)
    /\ DOMAIN result.before # {}
    /\ DOMAIN result.ret = {}

\* C16: a readable text holding a [Metadata] header parses successfully, with the fields
\* of the section that runs from the header to the next header or the end of the text,
\* and audio_filename from the [General] section delimited the same way.
C16_HeaderAlwaysParsed ==
    (result.called /\ Readable /\ "[Metadata]" \in Range(Content)) =>
       /\ Succeeded
       /\ result.ret = MetadataDict(SpecSection(Content, "[Metadata]").text,
                                    SpecSection(Content, "[General]"))

\* C17: after a successful parse the record has all five keys, and each of title, artist,
\* version, creator is the trimmed rest of that label's own line in the section, empty
\* when the section has no such line, and never holds the label.
C17_FieldsFromOwnLabelLine ==
    (result.called /\ Succeeded) =>
       LET section == Section(Content, "[Metadata]").text
           Own(value, label) ==
              /\ value = LineField(section, label)
              /\ label \notin Range(value)
              /\ Trimmed(value)
       IN  /\ DOMAIN result.ret = {"title", "artist", "version", "creator", "audio_filename"}
           /\ Own(result.ret.title, "Title:")
           /\ Own(result.ret.artist, "Artist:")
           /\ Own(result.ret.version, "Version:")
           /\ Own(result.ret.creator, "Creator:")

---------------------------------------------------------------------------
(* Properties of the window *)

\* the workers inside a process_osu_file call
InPipeline == { w \in DOMAIN workers : workers[w].pc = "in_file" }

\* C18: whatever the buttons did, at most one worker thread is alive, no two workers are
\* inside process_osu_file together, and every entry of a converter's lists was written
\* by the worker that constructed that converter.
C18_AtMostOneWorker ==
    /\ Cardinality({ w \in DOMAIN workers : Alive(w) }) <= 1
    /\ Cardinality(InPipeline) <= 1
    /\ \A c \in DOMAIN outcomes : \A i \in 1..Len(outcomes[c]) : outcomes[c][i].worker = c

\* C19: a worker that was running when stop was pressed begins no further file.
C19_StopHaltsProcessing ==
    \A w \in DOMAIN workers : ~workers[w].began_after_stop

---------------------------------------------------------------------------
(* Properties of a whole run *)

\* how many items of a playlist hold the track
Count(items, track) ==
    Cardinality({ i \in 1..Len(items) : items[i].has_track /\ items[i].id = track })

SameTrackAddedOnce ==
    \A i, j \in 1..Len(added_tracks) :
        added_tracks[i].track = added_tracks[j].track => i = j

LaterSameTrackIsDuplicate ==
    (/\ last.called /\ last.stage = "add"
     /\ \E i \in 1..Len(added_tracks) :
           added_tracks[i].track = last.track /\ added_tracks[i].file_path < last.path)
    => last.message = MsgDuplicate

AtMostOneMorePerPlaylist ==
    \A p \in 1..MaxPlaylists : \A t \in TrackIds(tracks[p]) :
        Count(tracks[p], t) <= Count(start_tracks[p], t) + 1

\* C21: in a directory run with the duplicate check on and no call failing, files that
\* match the same track give one Added entry, the first, and Duplicate for the later
\* ones, and no playlist gains a track more than once.
C21_OneAddedPerTrack ==
    (DirectoryHost /\ check_duplicate /\ ~run_failed) =>
       /\ SameTrackAddedOnce
       /\ LaterSameTrackIsDuplicate
       /\ AtMostOneMorePerPlaylist

\* C22: when main has handled a single chart file, it reports the track as added exactly
\* when process_osu_file's outcome was Added, and reports a failure otherwise.
C22_ReportMatchesOutcome ==
    (mode = "cli_file" /\ pc = "finished" /\ run >= 1) =>
       /\ reported \in {ReportAdded, ReportFailed}
       /\ reported = ReportAdded <=> (last.success /\ last.message = MsgAdded)

====
